---- MODULE Spec2Model ----
(***************************************************************************)
(* Model of src/ndb.py: class NDB (bin construction with snapshot          *)
(* caching, bin assignment and evaluation, the results cache, and the     *)
(* Jensen-Shannon / Kullback-Leibler precondition).                       *)
(*                                                                         *)
(* Numbers.  Sample coordinates, whitening statistics and bin centers are  *)
(* fixed-point numbers: an integer v stands for v / One.  Division rounds  *)
(* (towards minus infinity), as floating point division rounds.            *)
(* Proportions are exact rationals <<numerator, denominator>>.             *)
(* A numpy scalar and a shape-(1,) array broadcast alike, so the scalar    *)
(* defaults 0.0 and 1.0 of training_mean / training_std are the one-entry  *)
(* vectors <<0>> and <<One>>.  None is the empty array <<>> for the array  *)
(* fields and 0 for ref_sample_size.                                       *)
(***************************************************************************)
EXTENDS Integers, Sequences, FiniteSets, TLC

\* ---------------------------------------------------------------- bounds
\* Largest number_of_bins an NDB object is constructed with.
MaxK == 3
\* Number of calls (construct_bins, evaluate, jensen_shannon_divergence) of one run.
MaxCalls == 3
\* Denominator and length of the proportion vectors passed to
\* jensen_shannon_divergence directly.
MaxDen == 2
MaxBins == 2
\* NDB objects of one run.
MaxObjects == 2

\* Fixed-point representation of 1.0, the default training_std.
One == 2
\* The snapshot paths a caller passes; "" stands for None or an empty path.
FileNames == {"bins.pkl"}
\* The snapshot path every call names in the runs of SpecPair.
SharedFileNames == {"bins.pkl"}
\* model_label arguments: NoLabel is Python's None, "" the empty string.
NoLabel == "<None>"
Labels == {NoLabel, "", "Test", "Good"}

\* Training matrices (rows are samples): fewer rows than clusters, clusters
\* of unequal and of equal size, a constant column, widths 1 and 2.
TrainingSets ==
    { << <<0>> >>,
      << <<0>>, <<4>>, <<4>> >>,
      << <<0, 2>>, <<4, 2>> >> }
\* Query matrices: a point midway between two centers, points near one
\* center only, widths 1 and 2.
QuerySets ==
    { << <<2>> >>,
      << <<0>>, <<1>>, <<4>> >>,
      << <<4, 2>>, <<2, 2>> >> }

\* ------------------------------------------------------------- arithmetic
RECURSIVE SumSet(_, _)
\* Sum of f[i] over the indices i of the finite set S.
SumSet(f, S) ==
    IF S = {} THEN 0
    ELSE LET i == CHOOSE x \in S : TRUE
         IN  f[i] + SumSet(f, S \ {i})

\* Largest r with r * r <= x.
ISqrt(x) == CHOOSE r \in 0..x : r * r <= x /\ (r + 1) * (r + 1) > x

\* The array f (indexed from 1) with its entries evaluated.
Tuple(f) == SubSeq(f, 1, Len(f))

\* Number of entries of an array indexed 0 .. m-1.
Size(a) == Cardinality(DOMAIN a)

\* numpy broadcasting of two vectors: equal lengths, or one of length 1.
Compatible(a, b) == Len(a) = Len(b) \/ Len(a) = 1 \/ Len(b) = 1
BroadcastLen(a, b) == IF Len(a) = 1 THEN Len(b) ELSE Len(a)
At(a, j) == IF Len(a) = 1 THEN a[1] ELSE a[j]

\* ------------------------------------------------------------- whitening
\* ndb_eps = 1e-6: the smallest positive number of the fixed-point domain.
ndb_eps == 1

\* np.mean(samples, axis=0)
ColumnMean(samples) ==
    LET n == Len(samples)
        d == Len(samples[1])
    IN  [j \in 1..d |-> SumSet([i \in 1..n |-> samples[i][j]], 1..n) \div n]

\* np.std(samples, axis=0)
ColumnStd(samples) ==
    LET n == Len(samples)
        d == Len(samples[1])
        mu == ColumnMean(samples)
    IN  [j \in 1..d |->
            ISqrt(SumSet([i \in 1..n |-> (samples[i][j] - mu[j]) * (samples[i][j] - mu[j])],
                         1..n) \div n)]

\* (samples - training_mean) / training_std raises unless the shapes broadcast.
CanWhiten(d, mean, std) ==
    LET row == [j \in 1..d |-> 0]
    IN  /\ Compatible(row, mean)
        /\ Compatible([j \in 1..BroadcastLen(row, mean) |-> 0], std)

\* One row of (samples - training_mean) / training_std.
WhitenRow(row, mean, std) ==
    LET w1 == BroadcastLen(row, mean)
        t == [j \in 1..w1 |-> At(row, j) - At(mean, j)]
        w == BroadcastLen(t, std)
    IN  Tuple([j \in 1..w |-> (At(t, j) * One) \div At(std, j)])

Whiten(samples, mean, std) ==
    Tuple([i \in 1..Len(samples) |-> WhitenRow(samples[i], mean, std)])

\* ------------------------------------------------------------------ state
VARIABLES
    ndb,      \* the fields of each NDB object
    files,    \* the snapshot files that exist: path -> pickled bins_data
    written,  \* history: path -> the object that wrote it and its fields then
    ret,      \* the latest call: its arguments, its KMeans call, its exception
              \* or its result
    ncalls    \* calls made so far

vars == <<ndb, files, written, ret, ncalls>>

\* The record of a call before it has done anything.
Call(op, self, arg, samples) ==
    [op |-> op, self |-> self, arg |-> arg, samples |-> samples,
     raised |-> FALSE, error |-> "", kmeans |-> <<>>, value |-> <<>>]

\* The call ended with the exception error.
Raise(call, error) == [call EXCEPT !.raised = TRUE, !.error = error]

\* NDB.__init__ without training_data.
NewNDB(number_of_bins, whitening) ==
    [ number_of_bins |-> number_of_bins,
      whitening |-> whitening,
      training_mean |-> <<0>>,
      training_std |-> <<One>>,
      max_dims |-> 0,
      bin_centers |-> <<>>,
      bin_proportions |-> <<>>,
      ref_sample_size |-> 0,
      cached_results |-> <<>> ]

\* The objects a run may construct.
NewObjects == {NewNDB(k, w) : k \in 1..MaxK, w \in BOOLEAN}

\* A run with the NDB objects named in instances, no snapshot on disk.
InitWith(instances) ==
    /\ ndb \in [instances -> NewObjects]
    /\ files = <<>>
    /\ written = <<>>
    /\ ret = Call("init", 0, "", <<>>)
    /\ ncalls = 0

\* One NDB object has been constructed.
Init == InitWith({1})

\* NDB(number_of_bins=..., whitening=...): one more object, beside the others.
Construct(number_of_bins, whitening) ==
    /\ ncalls < MaxCalls
    /\ ncalls' = ncalls + 1
    /\ Cardinality(DOMAIN ndb) < MaxObjects
    /\ LET self == Cardinality(DOMAIN ndb) + 1
       IN  /\ ndb' = [i \in DOMAIN ndb \cup {self} |->
                         IF i = self THEN NewNDB(number_of_bins, whitening) ELSE ndb[i]]
           /\ ret' = Call("__init__", self, "", <<>>)
    /\ UNCHANGED <<files, written>>

\* ----------------------------------------------------------- snapshot file
\* Mutant: the snapshot is never looked for.
SnapshotFound_Never(bins_file, fs) == FALSE

\* The condition of __read_from_bins_file: bins_file and os.path.isfile(bins_file).
SnapshotFound(bins_file, fs) == bins_file # "" /\ bins_file \in DOMAIN fs

\* The assignments of __read_from_bins_file from the unpickled bins_data.
ReadFromBinsFile(o, bins_data) ==
    [o EXCEPT !.bin_proportions = bins_data.proportions,
              !.bin_centers = bins_data.centers,
              !.ref_sample_size = bins_data.n,
              !.training_mean = bins_data.mean,
              !.training_std = bins_data.std]

\* Mutant: mean and std stored under each other's key.
BinsData_Swapped(o) ==
    [ proportions |-> o.bin_proportions,
      centers |-> o.bin_centers,
      n |-> o.ref_sample_size,
      mean |-> o.training_std,
      std |-> o.training_mean ]

\* The bins_data dictionary __write_to_bins_file pickles.
BinsData(o) ==
    [ proportions |-> o.bin_proportions,
      centers |-> o.bin_centers,
      n |-> o.ref_sample_size,
      mean |-> o.training_mean,
      std |-> o.training_std ]

\* The five fields a snapshot carries.
Fields(o) ==
    [ bin_centers |-> o.bin_centers,
      bin_proportions |-> o.bin_proportions,
      ref_sample_size |-> o.ref_sample_size,
      training_mean |-> o.training_mean,
      training_std |-> o.training_std ]

\* __write_to_bins_file: pkl.dump to bins_file when one is given.
WriteToBinsFile(o, bins_file, fs) ==
    IF bins_file # ""
    THEN [f \in DOMAIN fs \cup {bins_file} |->
             IF f = bins_file THEN BinsData(o) ELSE fs[f]]
    ELSE fs

\* ------------------------------------------------------------ construct_bins
\* Lines 44-50: the whitening statistics and max_dims are assigned before
\* anything that can raise.
WithStatistics(o, training_samples) ==
    LET d == Len(training_samples[1])
        mu == ColumnMean(training_samples)
        sd == ColumnStd(training_samples)
        o1 == IF o.whitening
              THEN [o EXCEPT !.training_mean = mu,
                             !.training_std = [j \in 1..d |-> sd[j] + ndb_eps]]
              ELSE o
    IN  IF o1.max_dims = 0 /\ d > 1000
        THEN [o1 EXCEPT !.max_dims = d \div 6]
        ELSE o1

\* KMeans(n_clusters=k).fit raises when there are fewer samples than clusters.
KMeansRaises(n, k) == n < k

\* The label arrays KMeans may return: one label in [0, k) per sample.
LabelArrays(n, k) == [1..n -> 0..(k - 1)]

\* NaN row of width d (np.mean of an empty slice).
NanRow(d) == [nan |-> TRUE, v |-> [j \in 1..d |-> 0]]

\* Lines 63-65: row i is the mean of the whitened samples labelled i.
ClusterMeans(whitened, labels, k, d) ==
    [i \in 0..(k - 1) |->
        LET members == {s \in 1..Len(whitened) : labels[s] = i}
            w == Len(whitened[1])
        IN  IF members = {} THEN NanRow(d)
            ELSE [nan |-> FALSE,
                  v |-> [j \in 1..d |->
                      SumSet([s \in members |-> At(whitened[s], j)], members)
                          \div Cardinality(members)]]]

\* bin_centers[i, :] = <row of width w> raises unless w is d or 1.
CanStoreCenters(w, d) == w = d \/ w = 1

\* np.unique(labels, return_counts=True): the sorted distinct labels ...
LabelVals(labels) ==
    LET present == {labels[s] : s \in DOMAIN labels}
    IN  [u \in 0..(Cardinality(present) - 1) |->
            CHOOSE l \in present : Cardinality({x \in present : x < l}) = u]

\* ... and how often each occurs.
LabelCounts(labels) ==
    LET vals == LabelVals(labels)
    IN  [u \in DOMAIN vals |-> Cardinality({s \in DOMAIN labels : labels[s] = vals[u]})]

\* The orders np.argsort(-label_counts) may return (ties in any order).
ArgsortDescending(counts) ==
    LET m == Size(counts)
    IN  { order \in [0..(m - 1) -> 0..(m - 1)] :
            /\ \A i, j \in 0..(m - 1) : i # j => order[i] # order[j]
            /\ \A i \in 0..(m - 2) : counts[order[i]] >= counts[order[i + 1]] }

\* Lines 68-72: the fitted fields, bins reordered by bin_order.
Fitted(o, whitened, labels, bin_order, n, d) ==
    LET k == o.number_of_bins
        centers == ClusterMeans(whitened, labels, k, d)
        label_counts == LabelCounts(labels)
        total == SumSet(label_counts, DOMAIN label_counts)
    IN  [o EXCEPT !.bin_proportions =
                      [i \in DOMAIN bin_order |-> <<label_counts[bin_order[i]], total>>],
                  !.bin_centers = [i \in DOMAIN bin_order |-> centers[bin_order[i]]],
                  !.ref_sample_size = n]

ConstructBins(self, training_samples, bins_file) ==
    /\ ncalls < MaxCalls
    /\ ncalls' = ncalls + 1
    /\ LET o == ndb[self]
           n == Len(training_samples)
           d == Len(training_samples[1])
           k == o.number_of_bins
           call == Call("construct_bins", self, bins_file, training_samples)
       IN  IF SnapshotFound(bins_file, files)
           THEN /\ ndb' = [ndb EXCEPT ![self] = ReadFromBinsFile(o, files[bins_file])]
                /\ UNCHANGED <<files, written>>
                /\ ret' = call
           ELSE \E o1 \in {WithStatistics(o, training_samples)} :
                IF ~CanWhiten(d, o1.training_mean, o1.training_std)
                THEN /\ ndb' = [ndb EXCEPT ![self] = o1]
                     /\ UNCHANGED <<files, written>>
                     /\ ret' = Raise(call, "ValueError: operands could not be broadcast")
                ELSE \E whitened \in {Whiten(training_samples, o1.training_mean,
                                             o1.training_std)} :
                     IF KMeansRaises(n, k)
                     THEN /\ ndb' = [ndb EXCEPT ![self] = o1]
                          /\ UNCHANGED <<files, written>>
                          /\ ret' = [Raise(call, "ValueError: n_samples < n_clusters")
                                        EXCEPT !.kmeans = <<[samples |-> whitened,
                                                             labels |-> <<>>]>>]
                     ELSE \E labels \in LabelArrays(n, k) :
                          IF ~CanStoreCenters(Len(whitened[1]), d)
                          THEN /\ ndb' = [ndb EXCEPT ![self] = o1]
                               /\ UNCHANGED <<files, written>>
                               /\ ret' = [Raise(call, "ValueError: could not broadcast input array")
                                             EXCEPT !.kmeans = <<[samples |-> whitened,
                                                                  labels |-> labels]>>]
                          ELSE \E bin_order \in ArgsortDescending(LabelCounts(labels)) :
                               \E o2 \in {Fitted(o1, whitened, labels, bin_order, n, d)} :
                                  /\ ndb' = [ndb EXCEPT ![self] = o2]
                                  /\ files' = WriteToBinsFile(o2, bins_file, files)
                                  /\ written' =
                                        IF bins_file # ""
                                        THEN [f \in DOMAIN written \cup {bins_file} |->
                                                 IF f = bins_file
                                                 THEN [self |-> self, fields |-> Fields(o2)]
                                                 ELSE written[f]]
                                        ELSE written
                                  /\ ret' = [call EXCEPT !.kmeans = <<[samples |-> whitened,
                                                                       labels |-> labels]>>]

\* ----------------------------------------------- __calculate_bin_proportions
\* D[s, i] as its square (the square root is monotone): NaN for a NaN center.
Distance(w, center) ==
    IF center.nan THEN [nan |-> TRUE, v |-> 0]
    ELSE LET m == BroadcastLen(w, center.v)
         IN  [nan |-> FALSE,
              v |-> SumSet([j \in 1..m |-> (At(w, j) - At(center.v, j))
                                            * (At(w, j) - At(center.v, j))], 1..m)]

\* np.argmin of one row of D: the first NaN if there is one, else the first
\* entry no other entry is below.
ArgMin(row) ==
    LET nans == {i \in DOMAIN row : row[i].nan}
        least == {i \in DOMAIN row : \A j \in DOMAIN row : row[i].v <= row[j].v}
        pick == IF nans # {} THEN nans ELSE least
    IN  CHOOSE i \in pick : \A j \in pick : i <= j

\* labels = np.argmin(D, axis=1) for whitened samples.
NearestBins(whitened, bin_centers) ==
    Tuple([s \in 1..Len(whitened) |->
        ArgMin([i \in DOMAIN bin_centers |-> Distance(whitened[s], bin_centers[i])])])

\* Mutant: the counts divided by the number of bins.
BinProbabilities_OverK(labels, k, n) ==
    [i \in 0..(k - 1) |->
        LET count == Cardinality({s \in DOMAIN labels : labels[s] = i})
        IN  IF count = 0 THEN <<0, 1>> ELSE <<count, k>>]

\* probs = zeros(k); probs[label_vals] = label_counts / n
BinProbabilities(labels, k, n) ==
    [i \in 0..(k - 1) |->
        LET count == Cardinality({s \in DOMAIN labels : labels[s] = i})
        IN  IF count = 0 THEN <<0, 1>> ELSE <<count, n>>]

\* Mutant: the width assertion left out.
CalculateError_NoAssert(o, samples) ==
    IF o.bin_centers = <<>> THEN "AttributeError: 'NoneType' object has no attribute 'shape'"
    ELSE IF \/ ~CanWhiten(Len(samples[1]), o.training_mean, o.training_std)
            \/ ~Compatible(WhitenRow(samples[1], o.training_mean, o.training_std),
                           o.bin_centers[0].v)
    THEN "ValueError: operands could not be broadcast"
    ELSE ""

\* The exception __calculate_bin_proportions ends with, "" when it returns: no
\* bin centers (None has no shape), the width assertion, or shapes that do not
\* broadcast.
CalculateError(o, samples) ==
    IF o.bin_centers = <<>> THEN "AttributeError: 'NoneType' object has no attribute 'shape'"
    ELSE IF Len(samples[1]) # Len(o.bin_centers[0].v) THEN "AssertionError: width"
    ELSE IF \/ ~CanWhiten(Len(samples[1]), o.training_mean, o.training_std)
            \/ ~Compatible(WhitenRow(samples[1], o.training_mean, o.training_std),
                           o.bin_centers[0].v)
    THEN "ValueError: operands could not be broadcast"
    ELSE ""

\* The pair (probs, labels) __calculate_bin_proportions returns.
CalculateBinProportions(o, samples) ==
    LET whitened == Whiten(samples, o.training_mean, o.training_std)
        labels == NearestBins(whitened, o.bin_centers)
    IN  [probs |-> BinProbabilities(labels, Size(o.bin_centers), Len(samples)),
         labels |-> labels]

\* ---------------------------------------------------- statistical primitives
\* two_proportions_z_test for one bin, p1 = a/b and p2 = c/e, at the default
\* significance level 0.05: p_value < 0.05 iff z * z > 3.8415, and with z = 0/0
\* the comparison is False.
DifferentBin(p1, n1, p2, n2) ==
    LET a == p1[1]
        b == p1[2]
        c == p2[1]
        e == p2[2]
        N == n1 + n2
        num == a * e * n1 + c * b * n2
    IN  (a * e - c * b) * (a * e - c * b) * N * n1 * n2 * 10000
            > 38415 * num * (b * e * N - num)

two_proportions_z_test(p1, n1, p2, n2) ==
    [i \in DOMAIN p1 |-> DifferentBin(p1[i], n1, p2[i], n2)]

\* Mutant: m = (p - q) * 0.5.
Mixture_Difference(p, q) ==
    [i \in DOMAIN p |-> <<p[i][1] * q[i][2] - q[i][1] * p[i][2], 2 * p[i][2] * q[i][2]>>]

\* m = (p + q) * 0.5, entry by entry.
Mixture(p, q) ==
    [i \in DOMAIN p |-> <<p[i][1] * q[i][2] + q[i][1] * p[i][2], 2 * p[i][2] * q[i][2]>>]

\* The assertions of kl_divergence(p, q): finite inputs, and q != 0 wherever p != 0.
kl_divergence_defined(p, q) ==
    /\ \A i \in DOMAIN p : p[i][2] # 0
    /\ \A i \in DOMAIN q : q[i][2] # 0
    /\ ~\E i \in DOMAIN p : p[i][1] # 0 /\ q[i][1] = 0

\* The exception a failed assertion of kl_divergence raises.
InvalidDistribution == "AssertionError: kl_divergence"

\* jensen_shannon_divergence(p, q) returns iff both of its kl_divergence calls do.
jensen_shannon_divergence_defined(p, q) ==
    /\ kl_divergence_defined(p, Mixture(p, q))
    /\ kl_divergence_defined(q, Mixture(p, q))

\* ------------------------------------------------------------------ evaluate
\* The results dictionary (the JS value, a sum of logarithms, is not represented).
Results(o, query_samples) ==
    LET n == Len(query_samples)
        calc == CalculateBinProportions(o, query_samples)
        different_bins == two_proportions_z_test(o.bin_proportions, o.ref_sample_size,
                                                 calc.probs, n)
    IN  [ NDB |-> Cardinality({i \in DOMAIN different_bins : different_bins[i]}),
          Proportions |-> calc.probs,
          N |-> n,
          BinAssignment |-> calc.labels,
          DifferentBins |-> different_bins ]

\* Mutant: if model_label is not None.
Truthy_NotNone(model_label) == model_label # NoLabel

\* if model_label: None and the empty string are both false.
Truthy(model_label) == model_label # NoLabel /\ model_label # ""

\* self.cached_results[model_label] = results
Store(cached_results, model_label, results) ==
    [l \in DOMAIN cached_results \cup {model_label} |->
        IF l = model_label THEN results ELSE cached_results[l]]

Evaluate(self, query_samples, model_label) ==
    /\ ncalls < MaxCalls
    /\ ncalls' = ncalls + 1
    /\ UNCHANGED <<files, written>>
    /\ LET o == ndb[self]
           call == Call("evaluate", self, model_label, query_samples)
       IN  IF CalculateError(o, query_samples) # ""
           THEN /\ ndb' = ndb
                /\ ret' = Raise(call, CalculateError(o, query_samples))
           ELSE \E results \in {Results(o, query_samples)} :
                IF ~jensen_shannon_divergence_defined(o.bin_proportions,
                                                      results.Proportions)
                THEN /\ ndb' = ndb
                     /\ ret' = Raise(call, InvalidDistribution)
                ELSE /\ ndb' = [ndb EXCEPT ![self].cached_results =
                                    IF Truthy(model_label)
                                    THEN Store(@, model_label, results)
                                    ELSE @]
                     /\ ret' = [call EXCEPT !.value = <<results>>]

\* ------------------------------------------- jensen_shannon_divergence alone
\* Non-negative finite proportions c / MaxDen.
Proportions == {<<c, MaxDen>> : c \in 0..MaxDen}

\* Pairs of equally long vectors of them, one entry per bin.
DistributionPairs ==
    UNION {[0..(k - 1) -> Proportions] \X [0..(k - 1) -> Proportions] : k \in 1..MaxBins}

\* jensen_shannon_divergence is about to be called on a pair p, q; no NDB
\* object is needed for the static method.
InitJS ==
    /\ ndb = <<>>
    /\ files = <<>>
    /\ written = <<>>
    /\ ret \in {Call("call jensen_shannon_divergence", 0, "", <<pq[1], pq[2]>>) :
                  pq \in DistributionPairs}
    /\ ncalls = 0

\* The static method applied to p and q: it raises iff a kl_divergence assertion fails.
JensenShannonDivergence ==
    /\ ret.op = "call jensen_shannon_divergence"
    /\ ncalls < MaxCalls
    /\ ncalls' = ncalls + 1
    /\ UNCHANGED <<ndb, files, written>>
    /\ ret' = LET call == Call("jensen_shannon_divergence", 0, "", ret.samples)
              IN  IF jensen_shannon_divergence_defined(ret.samples[1], ret.samples[2])
                  THEN call
                  ELSE Raise(call, InvalidDistribution)

\* ------------------------------------------------------------- specification
Next ==
    \/ \E self \in DOMAIN ndb, training_samples \in TrainingSets,
          bins_file \in FileNames \cup {""} :
          ConstructBins(self, training_samples, bins_file)
    \/ \E self \in DOMAIN ndb, query_samples \in QuerySets, model_label \in Labels :
          Evaluate(self, query_samples, model_label)

\* One object: construct_bins and evaluate in any order.
Spec == Init /\ [][Next]_vars

\* Several objects fitted with one snapshot path as destination: __init__ and
\* construct_bins only, since evaluate touches neither the files nor the fields
\* a snapshot carries.
NextPair ==
    \/ \E self \in DOMAIN ndb, training_samples \in TrainingSets,
          bins_file \in SharedFileNames :
          ConstructBins(self, training_samples, bins_file)
    \/ \E number_of_bins \in 1..MaxK, whitening \in BOOLEAN :
          Construct(number_of_bins, whitening)

SpecPair == Init /\ [][NextPair]_vars

NextJS == Next \/ JensenShannonDivergence

\* jensen_shannon_divergence where the program calls it, in evaluate, and
\* applied to arbitrary proportion vectors.
SpecJS == (Init \/ InitJS) /\ [][NextJS]_vars

\* ==================================================================== claims
\* The latest call was a construct_bins that returned / an evaluate that returned.
ConstructReturned == ret.op = "construct_bins" /\ ~ret.raised
EvaluateReturned == ret.op = "evaluate" /\ ~ret.raised

\* C1: a construct_bins call whose bins_file names an existing snapshot never
\* invokes KMeans, writes nothing to the snapshot files, and leaves proportions,
\* centers, reference sample count, mean and std equal to the snapshot's,
\* whatever training samples it was given.
C1_RestoreTakesPrecedence ==
    [][ (ret'.op = "construct_bins" /\ ncalls' # ncalls /\ ret'.arg \in DOMAIN files)
        => /\ ret'.kmeans = <<>>
           /\ ~ret'.raised
           /\ files' = files
           /\ ndb'[ret'.self].bin_proportions = files[ret'.arg].proportions
           /\ ndb'[ret'.self].bin_centers = files[ret'.arg].centers
           /\ ndb'[ret'.self].ref_sample_size = files[ret'.arg].n
           /\ ndb'[ret'.self].training_mean = files[ret'.arg].mean
           /\ ndb'[ret'.self].training_std = files[ret'.arg].std ]_vars

\* C1 witness: a restore by a call whose training samples have another width
\* than the restored centers.
C1_Witness ==
    /\ ConstructReturned
    /\ ret.arg \in DOMAIN files
    /\ ret.kmeans = <<>>
    /\ Len(ret.samples[1]) # Len(ndb[ret.self].bin_centers[0].v)

\* C2: an object that restores from a snapshot has the bin centers, bin
\* proportions, reference sample count, whitening mean and whitening std that
\* the object which wrote the snapshot had when its fit returned.
C2_SnapshotRoundTrip ==
    (ConstructReturned /\ ret.kmeans = <<>>)
        => /\ ret.arg \in DOMAIN written
           /\ ndb[ret.self].bin_centers = written[ret.arg].fields.bin_centers
           /\ ndb[ret.self].bin_proportions = written[ret.arg].fields.bin_proportions
           /\ ndb[ret.self].ref_sample_size = written[ret.arg].fields.ref_sample_size
           /\ ndb[ret.self].training_mean = written[ret.arg].fields.training_mean
           /\ ndb[ret.self].training_std = written[ret.arg].fields.training_std

\* C2 witness: a second object, constructed without whitening, has restored a
\* snapshot that a whitening object wrote.
C2_Witness ==
    /\ ConstructReturned
    /\ ret.kmeans = <<>>
    /\ written[ret.arg].self # ret.self
    /\ ~ndb[ret.self].whitening
    /\ ndb[written[ret.arg].self].whitening
    /\ ndb[ret.self].training_std # <<One>>

\* C3: after any construct_bins call that completes, bin_centers and
\* bin_proportions are co-indexed and both have number_of_bins entries.
C3_KBins ==
    ConstructReturned
        => /\ DOMAIN ndb[ret.self].bin_centers = 0..(ndb[ret.self].number_of_bins - 1)
           /\ DOMAIN ndb[ret.self].bin_proportions = 0..(ndb[ret.self].number_of_bins - 1)

\* C4: after a successful fit, bin_proportions is non-increasing, and
\* bin_centers[i] is the center of a cluster whose population is the numerator
\* of bin_proportions[i].
C4_OrderedBins ==
    (ConstructReturned /\ ret.kmeans # <<>>)
        => LET o == ndb[ret.self]
               km == ret.kmeans[1]
               members(l) == {s \in DOMAIN km.labels : km.labels[s] = l}
               means == ClusterMeans(km.samples, km.labels, o.number_of_bins,
                                     Len(ret.samples[1]))
           IN  /\ \A i \in DOMAIN o.bin_proportions :
                     (i + 1) \in DOMAIN o.bin_proportions
                         => o.bin_proportions[i][1] * o.bin_proportions[i + 1][2]
                                >= o.bin_proportions[i + 1][1] * o.bin_proportions[i][2]
               /\ \A i \in DOMAIN o.bin_proportions :
                     \E l \in 0..(o.number_of_bins - 1) :
                         /\ members(l) # {}
                         /\ Cardinality(members(l)) = o.bin_proportions[i][1]
                         /\ o.bin_centers[i] = means[l]

\* C5 as stated: an evaluate call that returns, given any string as label (the
\* empty one too), leaves the cache mapping the label to the returned result
\* and every other entry as it was; given None it leaves the cache unchanged.
C5_AnyStringStored ==
    [][ (ret'.op = "evaluate" /\ ncalls' # ncalls /\ ~ret'.raised)
        => LET before == ndb[ret'.self].cached_results
               after == ndb'[ret'.self].cached_results
           IN  IF ret'.arg # NoLabel
               THEN /\ DOMAIN after = DOMAIN before \cup {ret'.arg}
                    /\ after[ret'.arg] = ret'.value[1]
                    /\ \A l \in DOMAIN before \ {ret'.arg} : after[l] = before[l]
               ELSE after = before ]_vars

\* C5 amended: the same for every non-empty label; given None or the empty
\* string the call leaves the cache unchanged.
C5_CacheSemantics ==
    [][ (ret'.op = "evaluate" /\ ncalls' # ncalls /\ ~ret'.raised)
        => LET before == ndb[ret'.self].cached_results
               after == ndb'[ret'.self].cached_results
           IN  IF ret'.arg # NoLabel /\ ret'.arg # ""
               THEN /\ DOMAIN after = DOMAIN before \cup {ret'.arg}
                    /\ after[ret'.arg] = ret'.value[1]
                    /\ \A l \in DOMAIN before \ {ret'.arg} : after[l] = before[l]
               ELSE after = before ]_vars

\* C5 witness: a labelled evaluate has stored its result beside the entry of
\* another label.
C5_Witness ==
    /\ EvaluateReturned
    /\ ret.arg = "Good"
    /\ DOMAIN ndb[ret.self].cached_results = {"Test", "Good"}
    /\ ndb[ret.self].cached_results["Good"] = ret.value[1]
    /\ ndb[ret.self].cached_results["Test"] # ret.value[1]

\* C6: a construct_bins or evaluate call that fails on an object already fit
\* leaves its bin centers, bin proportions, reference sample count, whitening
\* mean and whitening std as they were.
C6_FailureKeepsModel ==
    [][ (ret'.op \in {"construct_bins", "evaluate"} /\ ncalls' # ncalls /\ ret'.raised
            /\ ndb[ret'.self].bin_centers # <<>>)
        => /\ ndb'[ret'.self].bin_centers = ndb[ret'.self].bin_centers
           /\ ndb'[ret'.self].bin_proportions = ndb[ret'.self].bin_proportions
           /\ ndb'[ret'.self].ref_sample_size = ndb[ret'.self].ref_sample_size
           /\ ndb'[ret'.self].training_mean = ndb[ret'.self].training_mean
           /\ ndb'[ret'.self].training_std = ndb[ret'.self].training_std ]_vars

\* C7: an evaluate call on an object without bin centers, or with query vectors
\* whose width differs from the bin centers' width, raises: it returns no
\* result and the results cache stays as it was.
C7_EvaluateFails ==
    [][ (ret'.op = "evaluate" /\ ncalls' # ncalls
            /\ (\/ ndb[ret'.self].bin_centers = <<>>
                \/ Len(ret'.samples[1]) # Len(ndb[ret'.self].bin_centers[0].v)))
        => /\ ret'.raised
           /\ ret'.value = <<>>
           /\ ndb'[ret'.self].cached_results = ndb[ret'.self].cached_results ]_vars

\* C7 witness: evaluate has raised on a fitted object given queries of another
\* width.
C7_Witness ==
    /\ ret.op = "evaluate"
    /\ ret.raised
    /\ ndb[ret.self].bin_centers # <<>>
    /\ Len(ret.samples[1]) # Len(ndb[ret.self].bin_centers[0].v)

\* C8: an evaluate call that returns, on an object with k bins and n query
\* samples, returns n bin assignments with values in [0, k) and k proportions;
\* entry i is (number of samples assigned to bin i) / n, 0 for a bin without
\* samples; the counts sum to n and the proportions to 1.
C8_QueryProportions ==
    EvaluateReturned
        => LET k == Size(ndb[ret.self].bin_centers)
               n == Len(ret.samples)
               r == ret.value[1]
               count(i) == Cardinality({s \in 1..n : r.BinAssignment[s] = i})
           IN  /\ r.N = n
               /\ DOMAIN r.BinAssignment = 1..n
               /\ \A s \in 1..n : r.BinAssignment[s] \in 0..(k - 1)
               /\ DOMAIN r.Proportions = 0..(k - 1)
               /\ \A i \in 0..(k - 1) :
                     /\ r.Proportions[i][2] > 0
                     /\ r.Proportions[i][1] * n = count(i) * r.Proportions[i][2]
                     /\ count(i) = 0 => r.Proportions[i][1] = 0
               /\ SumSet([i \in 0..(k - 1) |-> count(i)], 0..(k - 1)) = n
               /\ \A i \in 0..(k - 1) : (r.Proportions[i][1] * n) % r.Proportions[i][2] = 0
               /\ SumSet([i \in 0..(k - 1) |->
                             (r.Proportions[i][1] * n) \div r.Proportions[i][2]],
                         0..(k - 1)) = n

\* C8 witness: evaluate has returned for several samples on an object with at
\* least two bins, one of which received no sample.
C8_Witness ==
    /\ EvaluateReturned
    /\ Len(ret.samples) > 1
    /\ Size(ndb[ret.self].bin_centers) > 1
    /\ \E i \in DOMAIN ret.value[1].Proportions :
          /\ ret.value[1].Proportions[i][1] = 0
          /\ \A s \in DOMAIN ret.value[1].BinAssignment : ret.value[1].BinAssignment[s] # i

\* C9: every query sample is assigned to a bin whose center is at minimal L2
\* distance from the sample whitened with the stored mean and std, the lowest
\* such bin when several are equally near.
C9_NearestCenter ==
    EvaluateReturned
        => LET o == ndb[ret.self]
               r == ret.value[1]
           IN  \A s \in DOMAIN ret.samples :
                  LET w == WhitenRow(ret.samples[s], o.training_mean, o.training_std)
                      b == r.BinAssignment[s]
                  IN  \A i \in DOMAIN o.bin_centers :
                         ~Distance(w, o.bin_centers[i]).nan
                             => /\ ~Distance(w, o.bin_centers[b]).nan
                                /\ Distance(w, o.bin_centers[b]).v
                                       <= Distance(w, o.bin_centers[i]).v
                                /\ Distance(w, o.bin_centers[b]).v
                                       = Distance(w, o.bin_centers[i]).v => b <= i

\* C10: for non-negative finite p and q of equal length, jensen_shannon_divergence
\* does not trip kl_divergence's assertions: with m = (p + q) / 2, m_i # 0
\* wherever p_i # 0 or q_i # 0; so no evaluate call ends with the exception of
\* a failed kl_divergence assertion.
C10_JSDefined ==
    /\ ret.op = "jensen_shannon_divergence"
          => LET p == ret.samples[1]
                 q == ret.samples[2]
                 m == Mixture(p, q)
             IN  /\ ~ret.raised
                 /\ \A i \in DOMAIN p : (p[i][1] # 0 \/ q[i][1] # 0) => m[i][1] # 0
    /\ ret.op = "evaluate" => ret.error # InvalidDistribution

\* C10 witness: jensen_shannon_divergence was applied to vectors with an entry
\* that is zero in p only, and an entry that is zero in both.
C10_Witness ==
    /\ ret.op = "jensen_shannon_divergence"
    /\ \E i \in DOMAIN ret.samples[1] :
          ret.samples[1][i][1] = 0 /\ ret.samples[2][i][1] # 0
    /\ \E i \in DOMAIN ret.samples[1] :
          ret.samples[1][i][1] = 0 /\ ret.samples[2][i][1] = 0

====
